---- MODULE Spec2Model ----
(***************************************************************************)
(* The editor store of src/src/store/imageStore.ts (a zustand store) and   *)
(* the handlers of src/src/App.tsx that call it.  Every store operation is *)
(* an operator from a store record to the store record it leaves, so that  *)
(* operations that call others (undo and applyPreset call                  *)
(* updateAdjustment, which calls addHistoryEntry) are modelled whole.  The *)
(* handlers that work on the fabric canvas (loading, cropping, split view) *)
(* are operators on the editor as a whole: the store, the canvas objects,  *)
(* the callbacks not yet run and the component state.                      *)
(***************************************************************************)
EXTENDS Integers, Sequences, FiniteSets, TLC

VARIABLES canvas, activeImage, isGrayscale, isSplitView, adjustments,
          history, presets, filters, clock, op, pre, prior, used, calls,
          pixels, surface, pending, ui, was

vars == <<canvas, activeImage, isGrayscale, isSplitView, adjustments,
          history, presets, filters, clock, op, pre, prior, used, calls,
          pixels, surface, pending, ui, was>>

----------------------------------------------------------------------------
(* Bounds of the model.                                                    *)

\* Spec: user edits (updateAdjustment, undo, applyPreset) in one run.
MaxEdits == 3
\* Images loaded in one run (every specification).
MaxImages == 1
\* SpecLedger: updateAdjustment calls in one run (the clock's last tick).
MaxCalls == 25
\* SpecLedger: undo, resetAdjustments and applyPreset calls, together, in
\* one run.
MaxDetours == 2
\* SpecPresets: presets added, and updateAdjustment calls (the clock's
\* last tick), in one run.
MaxAdds == 1
MaxPresetCalls == 10
\* SpecSharpness: pixels of the image data the filter is applied to.
MaxPixels == 12
\* SpecSurface: image loads started and crop commits that start the
\* construction of an image, together, in one run.
MaxTasks == 3
\* SpecSplit: crop commits that start the construction of an image, in one
\* run.
MaxCommits == 1

----------------------------------------------------------------------------
(* Data: interface Adjustment, HistoryEntry, Preset.                       *)

\* The knobs, in the property order of every Adjustment literal of the
\* source (the order Object.entries yields them in).
Keys == <<"brightness", "contrast", "saturation", "sharpness", "noise">>

KeySet == {Keys[i] : i \in 1..Len(Keys)}

Adjustment(b, c, s, sh, n) ==
    [k \in KeySet |-> CASE k = "brightness" -> b
                        [] k = "contrast"   -> c
                        [] k = "saturation" -> s
                        [] k = "sharpness"  -> sh
                        [] k = "noise"      -> n]

DEFAULT_ADJUSTMENTS == Adjustment(0, 0, 0, 0, 0)

\* A name is the sequence of its tokens; " " is a run of white space.
Space == " "

DEFAULT_PRESETS ==
    << [name |-> <<"Vintage">>,
        adjustments |-> Adjustment(-10, 10, -20, 0, 20)],
       [name |-> <<"Dramatic">>,
        adjustments |-> Adjustment(-5, 30, 10, 20, 0)],
       [name |-> <<"Classic", Space, "B&W">>,
        adjustments |-> Adjustment(0, 20, -100, 10, 0)] >>

\* No image: the store's activeImage is null.
NoImage == 0

----------------------------------------------------------------------------
(* Helpers for JavaScript array and string operations.                     *)

\* Array.prototype.slice(-n): the last n elements, all of them if fewer.
SliceLast(seq, n) ==
    IF Len(seq) <= n THEN seq ELSE SubSeq(seq, Len(seq) - n + 1, Len(seq))

\* Array.prototype.slice(0, -1): all but the last element.
SliceButLast(seq) ==
    IF Len(seq) = 0 THEN seq ELSE SubSeq(seq, 1, Len(seq) - 1)

\* String.prototype.trim: leading and trailing white space removed.
RECURSIVE TrimLeft(_)
TrimLeft(s) ==
    IF s # <<>> /\ Head(s) = Space THEN TrimLeft(Tail(s)) ELSE s

RECURSIVE TrimRight(_)
TrimRight(s) ==
    IF s # <<>> /\ s[Len(s)] = Space THEN TrimRight(SliceButLast(s)) ELSE s

Trim(s) == TrimRight(TrimLeft(s))

----------------------------------------------------------------------------
(* The filters of fabric.Image.filters the store builds.  A parameter is   *)
(* the quotient num/den the source computes, kept as the pair.             *)

Grayscale == [type |-> "Grayscale", num |-> 0, den |-> 1]

Filter(type, num, den) == [type |-> type, num |-> num, den |-> den]

\* updateAdjustment, "Apply filters based on adjustments".
FilterStack(adj, gray) ==
    (IF gray THEN <<Grayscale>> ELSE <<>>) \o
    << Filter("Brightness", adj["brightness"], 100),
       Filter("Contrast", adj["contrast"], 100),
       Filter("Saturation", adj["saturation"], 100),
       Filter("Sharpness", adj["sharpness"], 1),
       Filter("Noise", adj["noise"], 1) >>

----------------------------------------------------------------------------
(* fabric.Image.filters.Sharpness, applyTo2d.  The image data is the flat  *)
(* array of ImageData.data, four bytes a pixel (red, green, blue, alpha),  *)
(* row by row; the element of index i of the source is data[i + 1].        *)

\* No image data: no filter is being applied.
NoPixels ==
    [data |-> <<>>, input |-> <<>>, width |-> 0, height |-> 0,
     sharpness |-> 0, applied |-> FALSE]

\* A store into a Uint8ClampedArray of the number n / d (d > 0 and even):
\* clamped to [0, 255] and rounded to the nearest integer, a tie to the
\* even one.
ToUint8Clamp(n, d) ==
    LET q == n \div d
        r == n % d
    IN IF n <= 0 THEN 0
       ELSE IF n >= 255 * d THEN 255
       ELSE IF 2 * r < d THEN q
       ELSE IF 2 * r > d THEN q + 1
       ELSE IF q % 2 = 0 THEN q
       ELSE q + 1

\* The value stored for one channel: current + (current - neighbors) *
\* amount, with neighbors = sum / 4 and amount = sharpness / 50.
Sharpened(current, sum, sharpness) ==
    ToUint8Clamp(200 * current + (4 * current - sum) * sharpness, 200)

\* The loops of applyTo2d from step k on; step k is channel k % 3 of the
\* k \div 3-th interior pixel, row by row.  Every read is of data, the
\* array the earlier steps stored into.
RECURSIVE applyTo2dFrom(_, _, _, _, _)
applyTo2dFrom(data, width, height, sharpness, k) ==
    IF k >= (width - 2) * (height - 2) * 3 THEN data
    ELSE LET c == k % 3
             x == 1 + ((k \div 3) % (width - 2))
             y == 1 + ((k \div 3) \div (width - 2))
             idx == (y * width + x) * 4
             idxN == ((y - 1) * width + x) * 4
             idxS == ((y + 1) * width + x) * 4
             idxE == (y * width + x + 1) * 4
             idxW == (y * width + x - 1) * 4
             sum == data[idxN + c + 1] + data[idxS + c + 1]
                    + data[idxE + c + 1] + data[idxW + c + 1]
         IN applyTo2dFrom(
                [data EXCEPT ![idx + c + 1] =
                    Sharpened(data[idx + c + 1], sum, sharpness)],
                width, height, sharpness, k + 1)

applyTo2d(data, width, height, sharpness) ==
    applyTo2dFrom(data, width, height, sharpness, 0)

----------------------------------------------------------------------------
(* The store.  A store record holds the fields of ImageState the           *)
(* operations read and write; filters is the filter list of activeImage    *)
(* and clock the last value Date.now() returned.                           *)

Store ==
    [canvas |-> canvas, activeImage |-> activeImage,
     isGrayscale |-> isGrayscale, isSplitView |-> isSplitView,
     adjustments |-> adjustments, history |-> history,
     presets |-> presets, filters |-> filters, clock |-> clock]

InitStore ==
    [canvas |-> FALSE, activeImage |-> NoImage,
     isGrayscale |-> FALSE, isSplitView |-> FALSE,
     adjustments |-> DEFAULT_ADJUSTMENTS, history |-> <<>>,
     presets |-> DEFAULT_PRESETS, filters |-> <<>>, clock |-> 0]

\* if (activeImage && canvas)
Ready(s) == s.activeImage # NoImage /\ s.canvas

setCanvas(s) == [s EXCEPT !.canvas = TRUE]

\* The entries addHistoryEntry keeps before the one it appends.
HistoryKeep == 19

\* A faulty variant: one entry too many is kept before the append.
addHistoryEntryOffByOne(s, entry) ==
    [s EXCEPT !.history =
        Append(SliceLast(s.history, HistoryKeep + 1), entry)]

addHistoryEntry(s, entry) ==
    [s EXCEPT !.history = Append(SliceLast(s.history, HistoryKeep), entry)]

toggleGrayscale(s) ==
    IF Ready(s)
    THEN [s EXCEPT
            !.filters = IF ~s.isGrayscale
                        THEN Append(s.filters, Grayscale)
                        ELSE SelectSeq(s.filters,
                                       LAMBDA f : f.type # "Grayscale"),
            !.isGrayscale = ~s.isGrayscale]
    ELSE s

toggleSplitView(s) == [s EXCEPT !.isSplitView = ~s.isSplitView]

\* A faulty variant: the new filters are pushed onto the stack the image
\* had, which is not emptied first.
updateAdjustmentKeepsFilters(s, key, value) ==
    IF Ready(s)
    THEN LET adj == [s.adjustments EXCEPT ![key] = value]
             now == s.clock + 1
         IN addHistoryEntry(
                [s EXCEPT !.adjustments = adj,
                          !.filters = s.filters \o
                                      FilterStack(adj, s.isGrayscale),
                          !.clock = now],
                [adjustments |-> adj, timestamp |-> now])
    ELSE s

\* Date.now() is a logical clock: each call reads the next tick.
updateAdjustment(s, key, value) ==
    IF Ready(s)
    THEN LET adj == [s.adjustments EXCEPT ![key] = value]
             now == s.clock + 1
         IN addHistoryEntry(
                [s EXCEPT !.adjustments = adj,
                          !.filters = FilterStack(adj, s.isGrayscale),
                          !.clock = now],
                [adjustments |-> adj, timestamp |-> now])
    ELSE s

\* A faulty variant: the reset is recorded in the ledger.
resetRecordsHistory(s) ==
    IF Ready(s)
    THEN addHistoryEntry(
             [s EXCEPT !.filters = <<>>,
                       !.adjustments = DEFAULT_ADJUSTMENTS,
                       !.isGrayscale = FALSE,
                       !.clock = s.clock + 1],
             [adjustments |-> DEFAULT_ADJUSTMENTS,
              timestamp |-> s.clock + 1])
    ELSE s

resetAdjustments(s) ==
    IF Ready(s)
    THEN [s EXCEPT !.filters = <<>>,
                   !.adjustments = DEFAULT_ADJUSTMENTS,
                   !.isGrayscale = FALSE]
    ELSE s

\* A faulty variant: the latest entry is restored, not the one before it.
undoRestoresLatest(s) ==
    IF Len(s.history) > 0 /\ Ready(s)
    THEN LET previous == s.history[Len(s.history)].adjustments
         IN updateAdjustment(
                [s EXCEPT !.adjustments = previous,
                          !.history = SliceButLast(s.history)],
                "brightness", previous["brightness"])
    ELSE s

\* A faulty variant: with fewer than two entries the only entry is
\* restored, not the defaults.
undoWithoutDefaults(s) ==
    IF Len(s.history) > 0 /\ Ready(s)
    THEN LET previous ==
                 IF Len(s.history) >= 2
                 THEN s.history[Len(s.history) - 1].adjustments
                 ELSE s.history[1].adjustments
         IN updateAdjustment(
                [s EXCEPT !.adjustments = previous,
                          !.history = SliceButLast(s.history)],
                "brightness", previous["brightness"])
    ELSE s

undo(s) ==
    IF Len(s.history) > 0 /\ Ready(s)
    THEN LET previous ==
                 IF Len(s.history) >= 2
                 THEN s.history[Len(s.history) - 1].adjustments
                 ELSE DEFAULT_ADJUSTMENTS
         IN updateAdjustment(
                [s EXCEPT !.adjustments = previous,
                          !.history = SliceButLast(s.history)],
                "brightness", previous["brightness"])
    ELSE s

addPreset(s, preset) == [s EXCEPT !.presets = Append(s.presets, preset)]

\* Object.entries(adjustments).forEach: one updateAdjustment per knob.
RECURSIVE applyKnobs(_, _, _)
applyKnobs(s, adj, i) ==
    IF i > Len(Keys) THEN s
    ELSE applyKnobs(updateAdjustment(s, Keys[i], adj[Keys[i]]), adj, i + 1)

\* A faulty variant: every knob is written over the adjustments read
\* before the loop, so only the last knob written stays.
applyPresetStale(s, preset) ==
    LET t == applyKnobs(s, preset.adjustments, 1)
    IN IF Ready(s)
       THEN [t EXCEPT !.adjustments =
                [s.adjustments EXCEPT
                    ![Keys[Len(Keys)]] = preset.adjustments[Keys[Len(Keys)]]]]
       ELSE t

\* A faulty variant: the preset's knobs are written together and one
\* updateAdjustment records them.
applyPresetAtOnce(s, preset) ==
    updateAdjustment([s EXCEPT !.adjustments = preset.adjustments],
                     Keys[1], preset.adjustments[Keys[1]])

applyPreset(s, preset) == applyKnobs(s, preset.adjustments, 1)

deletePreset(s, presetName) ==
    [s EXCEPT !.presets =
        SelectSeq(s.presets, LAMBDA p : p.name # presetName)]

\* ImageCanvas.loadImage, the fabric.Image.fromURL callback: a new image
\* object, with no filters, becomes the active image.
loadImage(s, img) ==
    IF s.canvas
    THEN [s EXCEPT !.activeImage = img, !.filters = <<>>]
    ELSE s

\* PresetSelector.handleSavePreset with newPresetName = name.
handleSavePreset(s, name) ==
    IF Trim(name) # <<>>
    THEN addPreset(s, [name |-> name, adjustments |-> s.adjustments])
    ELSE s

\* PresetSelector: the names whose rows show no delete button.
BuiltInNames == {DEFAULT_PRESETS[i].name : i \in 1..Len(DEFAULT_PRESETS)}

----------------------------------------------------------------------------
(* Numbers of the canvas geometry: JavaScript numbers are modelled as      *)
(* exact fractions n / d, d > 0, in lowest terms.                          *)

RECURSIVE Gcd(_, _)
Gcd(a, b) == IF b = 0 THEN a ELSE Gcd(b, a % b)

Abs(n) == IF n < 0 THEN -n ELSE n

Q(n, d) ==
    LET g == Gcd(Abs(n), Abs(d))
        sign == IF d < 0 THEN -1 ELSE 1
    IN [n |-> sign * (n \div g), d |-> sign * (d \div g)]

QInt(n) == [n |-> n, d |-> 1]

QAdd(a, b) == Q(a.n * b.d + b.n * a.d, a.d * b.d)

QSub(a, b) == Q(a.n * b.d - b.n * a.d, a.d * b.d)

QMul(a, b) == Q(a.n * b.n, a.d * b.d)

QDiv(a, b) == Q(a.n * b.d, a.d * b.n)

\* Math.min
QMin(a, b) == IF a.n * b.d <= b.n * a.d THEN a ELSE b

\* A store into HTMLCanvasElement.width or height, an unsigned long: the
\* fraction of a number that is not negative is dropped.
ToUnsignedLong(a) == a.n \div a.d

----------------------------------------------------------------------------
(* The render surface: the fabric.Canvas and its objects.  An object is an *)
(* identity, a positive number, and shapes gives the fields of every       *)
(* object some reference reaches: the surface's list, the store's          *)
(* activeImage, originalImageRef, the closure of a pending callback.  A    *)
(* new object takes the least identity no reference holds.                 *)

\* The width and height of the canvas element (the values loadImage falls
\* back to).
CanvasWidth == 800
CanvasHeight == 600

\* The source pixels an image was drawn from: none for a decoded file.
NoRegion ==
    [left |-> QInt(0), top |-> QInt(0), width |-> QInt(0),
     height |-> QInt(0)]

\* A fabric.Image of a decoded file or data URL: width and height are the
\* pixel dimensions of its element.
Image(file, width, height, region) ==
    [kind |-> "image", left |-> QInt(0), top |-> QInt(0),
     width |-> QInt(width), height |-> QInt(height),
     scaleX |-> QInt(1), scaleY |-> QInt(1), clipPath |-> FALSE,
     file |-> file, region |-> region]

\* new fabric.Rect({left, top, width, height, ...}): its own scale is 1.
Rect(left, top, width, height) ==
    [kind |-> "rect", left |-> left, top |-> top,
     width |-> width, height |-> height,
     scaleX |-> QInt(1), scaleY |-> QInt(1), clipPath |-> FALSE,
     file |-> 0, region |-> NoRegion]

\* The editor: the store, the surface, the callbacks not yet run and the
\* state of the components (Controls' isCropping, ImageCanvas'
\* originalImageRef).
World ==
    [store |-> Store, surface |-> surface, pending |-> pending, ui |-> ui]

InitSurface == [objects |-> <<>>, shapes |-> <<>>]

InitPending == [loads |-> {}, crops |-> {}]

InitUi == [isCropping |-> FALSE, originalImageRef |-> NoImage]

\* The identities some reference of w holds.
Referenced(w) ==
    ({w.surface.objects[i] : i \in 1..Len(w.surface.objects)}
        \cup {w.store.activeImage, w.ui.originalImageRef}
        \cup {t.image : t \in w.pending.crops}
        \cup {t.rect : t \in w.pending.crops}) \ {NoImage}

\* The least identity no reference of w holds.
NewObject(w) ==
    CHOOSE n \in 1..(Cardinality(Referenced(w)) + 1) :
        /\ n \notin Referenced(w)
        /\ \A m \in 1..(n - 1) : m \in Referenced(w)

\* The objects no reference reaches are collected.
Collected(w) ==
    [w EXCEPT !.surface.shapes =
        [o \in Referenced(w) |-> w.surface.shapes[o]]]

\* fabric.Canvas.add, remove, clear
add(surf, o, shape) ==
    [objects |-> Append(surf.objects, o),
     shapes |-> [p \in DOMAIN surf.shapes \cup {o} |->
                    IF p = o THEN shape ELSE surf.shapes[p]]]

remove(surf, o) ==
    [surf EXCEPT !.objects = SelectSeq(surf.objects, LAMBDA p : p # o)]

clear(surf) == [surf EXCEPT !.objects = <<>>]

\* objects.find(obj => obj instanceof fabric.Rect): the first rect of the
\* surface, NoImage for undefined.
FindRect(surf) ==
    LET rects == {i \in 1..Len(surf.objects) :
                     surf.shapes[surf.objects[i]].kind = "rect"}
    IN IF rects = {} THEN NoImage
       ELSE surf.objects[CHOOSE i \in rects : \A j \in rects : i <= j]

\* ImageCanvas.loadImage: reader.readAsDataURL(file), the read is pending.
readAsDataURL(w, load, file) ==
    [w EXCEPT !.pending.loads =
        @ \cup {[id |-> load, file |-> file, stage |-> "read"]}]

\* ImageCanvas.loadImage, reader.onload: fabric.Image.fromURL(result, ...),
\* the decode is pending.
onload(w, task) ==
    IF w.store.canvas
    THEN [w EXCEPT !.pending.loads =
            (@ \ {task}) \cup {[task EXCEPT !.stage = "decode"]}]
    ELSE [w EXCEPT !.pending.loads = @ \ {task}]

\* The image the fromURL callback of loadImage places: scaled to fit the
\* canvas, centred.
Fitted(file) ==
    LET scale == QMul(QMin(Q(CanvasWidth, file.width),
                           Q(CanvasHeight, file.height)), Q(9, 10))
    IN [Image(file.name, file.width, file.height, NoRegion) EXCEPT
            !.scaleX = scale,
            !.scaleY = scale,
            !.left = QDiv(QSub(QInt(CanvasWidth),
                               QMul(QInt(file.width), scale)), QInt(2)),
            !.top = QDiv(QSub(QInt(CanvasHeight),
                              QMul(QInt(file.height), scale)), QInt(2))]

\* A faulty variant: the canvas is not cleared before the image is added.
fromURLKeepsObjects(w, task) ==
    LET img == NewObject(w)
    IN Collected(
           [w EXCEPT
               !.pending.loads = @ \ {task},
               !.surface = add(w.surface, img, Fitted(task.file)),
               !.ui.originalImageRef = img,
               !.store = loadImage(w.store, img)])

\* ImageCanvas.loadImage, the fabric.Image.fromURL callback.
fromURL(w, task) ==
    LET img == NewObject(w)
    IN Collected(
           [w EXCEPT
               !.pending.loads = @ \ {task},
               !.surface = add(clear(w.surface), img, Fitted(task.file)),
               !.ui.originalImageRef = img,
               !.store = loadImage(w.store, img)])

\* ImageCanvas, the effect of isSplitView.
splitViewEffect(w) ==
    LET original == w.ui.originalImageRef
        objects == w.surface.objects
        clipped(surf, on) ==
            [surf EXCEPT !.shapes[original].clipPath = on]
    IN IF w.store.canvas /\ original # NoImage
       THEN IF w.store.isSplitView
            THEN Collected(
                     [w EXCEPT !.surface =
                         add(clipped(w.surface, TRUE), NewObject(w),
                             [w.surface.shapes[original] EXCEPT
                                 !.clipPath = TRUE])])
            ELSE Collected(
                     [w EXCEPT !.surface =
                         clipped(IF Len(objects) > 1
                                 THEN remove(w.surface, objects[2])
                                 ELSE w.surface, FALSE)])
       ELSE w

\* The objects of the surface that are not the active image, removed.
RECURSIVE removeOthers(_, _, _)
removeOthers(surf, objects, activeImg) ==
    IF objects = <<>> THEN surf
    ELSE removeOthers(IF Head(objects) # activeImg
                      THEN remove(surf, Head(objects))
                      ELSE surf,
                      Tail(objects), activeImg)

cropImage(w) ==
    IF Ready(w.store)
    THEN LET img == w.surface.shapes[w.store.activeImage]
             only == [w EXCEPT !.surface =
                         removeOthers(w.surface, w.surface.objects,
                                      w.store.activeImage)]
         IN Collected(
                [only EXCEPT !.surface =
                    add(only.surface, NewObject(Collected(only)),
                        Rect(img.left, img.top,
                             QMul(img.width, img.scaleX),
                             QMul(img.height, img.scaleY)))])
    ELSE w

\* A faulty variant: with no rect on the surface the whole active image is
\* taken for the crop and the construction starts.
applyCropWithoutRect(w, context) ==
    LET activeImg == w.store.activeImage
        found == FindRect(w.surface)
        cropRect == IF found = NoImage THEN activeImg ELSE found
        img == w.surface.shapes[activeImg]
        rect == w.surface.shapes[cropRect]
        tasks == {t.id : t \in w.pending.crops}
    IN IF ~Ready(w.store) THEN w
       ELSE IF ~context THEN w
       ELSE [w EXCEPT !.pending.crops = @ \cup
               {[id |-> CHOOSE n \in 1..(Cardinality(tasks) + 1) :
                            n \notin tasks,
                 image |-> activeImg,
                 rect |-> cropRect,
                 width |-> ToUnsignedLong(QMul(rect.width, rect.scaleX)),
                 height |-> ToUnsignedLong(QMul(rect.height, rect.scaleY)),
                 region |->
                     [left |-> QDiv(QSub(rect.left, img.left), img.scaleX),
                      top |-> QDiv(QSub(rect.top, img.top), img.scaleY),
                      width |-> QDiv(rect.width, img.scaleX),
                      height |-> QDiv(rect.height, img.scaleY)],
                 rectThen |-> rect]}]

\* applyCrop up to fabric.Image.fromURL(tempCanvas.toDataURL(), ...): the
\* temporary canvas is drawn and the construction of the new image is
\* pending.  context tells whether getContext('2d') gave a context.  The
\* task holds what the callback closes over, activeImage and cropRect,
\* and the data URL: the size of the temporary canvas and the source
\* pixels drawn onto it; rectThen is the rect as it is now.
applyCrop(w, context) ==
    LET activeImg == w.store.activeImage
        cropRect == FindRect(w.surface)
        img == w.surface.shapes[activeImg]
        rect == w.surface.shapes[cropRect]
        tasks == {t.id : t \in w.pending.crops}
    IN IF ~Ready(w.store) THEN w
       ELSE IF cropRect = NoImage THEN w
       ELSE IF ~context THEN w
       ELSE [w EXCEPT !.pending.crops = @ \cup
               {[id |-> CHOOSE n \in 1..(Cardinality(tasks) + 1) :
                            n \notin tasks,
                 image |-> activeImg,
                 rect |-> cropRect,
                 width |-> ToUnsignedLong(QMul(rect.width, rect.scaleX)),
                 height |-> ToUnsignedLong(QMul(rect.height, rect.scaleY)),
                 region |->
                     [left |-> QDiv(QSub(rect.left, img.left), img.scaleX),
                      top |-> QDiv(QSub(rect.top, img.top), img.scaleY),
                      width |-> QDiv(rect.width, img.scaleX),
                      height |-> QDiv(rect.height, img.scaleY)],
                 rectThen |-> rect]}]

\* A faulty variant: the crop rect stays on the surface.
croppedImgKeepsRect(w, task) ==
    LET rect == w.surface.shapes[task.rect]
        old == w.surface.shapes[task.image]
        img == NewObject(w)
    IN Collected(
           [w EXCEPT
               !.pending.crops = @ \ {task},
               !.surface =
                   add(remove(w.surface, task.image), img,
                       [Image(old.file, task.width, task.height,
                              task.region) EXCEPT
                           !.left = rect.left, !.top = rect.top]),
               !.store.activeImage = img,
               !.store.filters = <<>>])

\* applyCrop, the fabric.Image.fromURL callback.
croppedImg(w, task) ==
    LET rect == w.surface.shapes[task.rect]
        old == w.surface.shapes[task.image]
        img == NewObject(w)
    IN Collected(
           [w EXCEPT
               !.pending.crops = @ \ {task},
               !.surface =
                   add(remove(remove(w.surface, task.image), task.rect),
                       img,
                       [Image(old.file, task.width, task.height,
                              task.region) EXCEPT
                           !.left = rect.left, !.top = rect.top]),
               !.store.activeImage = img,
               !.store.filters = <<>>])

\* Controls.handleCropClick
handleCropClick(w, context) ==
    IF ~w.ui.isCropping
    THEN [cropImage(w) EXCEPT !.ui.isCropping = TRUE]
    ELSE [applyCrop(w, context) EXCEPT !.ui.isCropping = FALSE]

\* The user drags the crop rect by (dx, dy) and scales it to (sx, sy) with
\* its controls.
transformRect(w, g) ==
    LET cropRect == FindRect(w.surface)
    IN IF cropRect = NoImage THEN w
       ELSE [w EXCEPT !.surface.shapes[cropRect] =
               [@ EXCEPT !.left = QAdd(@, QInt(g.dx)),
                         !.top = QAdd(@, QInt(g.dy)),
                         !.scaleX = g.sx,
                         !.scaleY = g.sy]]

----------------------------------------------------------------------------
(* Steps.  One step is one call of a store operation or one run of a UI    *)
(* handler, taken whole.  op names the last call and its arguments, pre is *)
(* the store it was made on; when the pair of the call before and the last *)
(* call is in Sequels, prior holds the call before, the adjustments it was *)
(* made on and the length of the ledger it was made on, and is empty       *)
(* otherwise.  used counts the calls the bounds limit and the images       *)
(* loaded; calls lists the snapshot of every updateAdjustment call of      *)
(* SpecLedger, evicted ones included; was is the surface, the pending      *)
(* callbacks and the component state the last step was made on.            *)

\* The pairs of calls, one at once after the other, that prior records.
Sequels ==
    { <<"updateAdjustment", "undo">>, <<"undo", "undo">>,
      <<"addPreset", "applyPreset">> }

\* A step that leaves the editor w.
CommitWorld(name, args, w) ==
    /\ canvas' = w.store.canvas
    /\ activeImage' = w.store.activeImage
    /\ isGrayscale' = w.store.isGrayscale
    /\ isSplitView' = w.store.isSplitView
    /\ adjustments' = w.store.adjustments
    /\ history' = w.store.history
    /\ presets' = w.store.presets
    /\ filters' = w.store.filters
    /\ clock' = w.store.clock
    /\ surface' = w.surface
    /\ pending' = w.pending
    /\ ui' = w.ui
    /\ was' = [surface |-> surface, pending |-> pending, ui |-> ui]
    /\ op' = [name |-> name, args |-> args]
    /\ pre' = Store
    /\ prior' = IF <<op.name, name>> \in Sequels
                THEN <<[op |-> op, adjustments |-> pre.adjustments,
                        ledger |-> Len(pre.history)]>>
                ELSE <<>>
    /\ UNCHANGED pixels

\* A step of the store alone, which leaves the store t.
Commit(name, args, t) == CommitWorld(name, args, [World EXCEPT !.store = t])

\* The store and the counters after construction.
InitEditor ==
    /\ canvas = InitStore.canvas
    /\ activeImage = InitStore.activeImage
    /\ isGrayscale = InitStore.isGrayscale
    /\ isSplitView = InitStore.isSplitView
    /\ adjustments = InitStore.adjustments
    /\ history = InitStore.history
    /\ presets = InitStore.presets
    /\ filters = InitStore.filters
    /\ clock = InitStore.clock
    /\ op = [name |-> "create", args |-> <<>>]
    /\ pre = InitStore
    /\ prior = <<>>
    /\ used = [edits |-> 0, undos |-> 0, resets |-> 0, applies |-> 0,
               adds |-> 0, images |-> 0, loads |-> 0, crops |-> 0]
    /\ calls = <<>>
    /\ surface = InitSurface
    /\ pending = InitPending
    /\ ui = InitUi
    /\ was = [surface |-> InitSurface, pending |-> InitPending,
              ui |-> InitUi]

Init ==
    /\ InitEditor
    /\ pixels = NoPixels

Count(field) == used' = [used EXCEPT ![field] = @ + 1]

\* ImageCanvas mounts: setCanvas(fabricCanvas).
SetCanvas ==
    /\ ~canvas
    /\ Commit("setCanvas", <<>>, setCanvas(Store))
    /\ UNCHANGED <<used, calls>>

\* The image files dropped or picked: the name and the pixel dimensions.
\* The first fits the canvas at scale 1, the second at scale 1.08.
Files ==
    << [name |-> 1, width |-> 540, height |-> 540],
       [name |-> 2, width |-> 333, height |-> 500] >>

\* An image file is dropped or picked, and its read and its decode
\* complete with no step in between.
LoadImage(file) ==
    /\ canvas
    /\ used.images < MaxImages
    /\ LET read == [id |-> used.images + 1, file |-> file,
                    stage |-> "read"]
           decode == [read EXCEPT !.stage = "decode"]
       IN CommitWorld("loadImage", <<decode>>,
              fromURL(onload(readAsDataURL(World, read.id, file), read),
                      decode))
    /\ Count("images")
    /\ UNCHANGED calls

ToggleGrayscale ==
    /\ Commit("toggleGrayscale", <<>>, toggleGrayscale(Store))
    /\ UNCHANGED <<used, calls>>

\* The split-view button is clicked and the effect of isSplitView runs.
ToggleSplitView ==
    /\ CommitWorld("toggleSplitView", <<>>,
           splitViewEffect([World EXCEPT !.store = toggleSplitView(Store)]))
    /\ UNCHANGED <<used, calls>>

UpdateAdjustment(key, value) ==
    Commit("updateAdjustment", <<key, value>>,
           updateAdjustment(Store, key, value))

ResetAdjustments ==
    Commit("resetAdjustments", <<>>, resetAdjustments(Store))

Undo == Commit("undo", <<>>, undo(Store))

AddPreset(preset) == Commit("addPreset", <<preset>>, addPreset(Store, preset))

ApplyPreset(preset) ==
    Commit("applyPreset", <<preset>>, applyPreset(Store, preset))

DeletePreset(presetName) ==
    Commit("deletePreset", <<presetName>>, deletePreset(Store, presetName))

HandleSavePreset(name) ==
    Commit("handleSavePreset", <<name>>, handleSavePreset(Store, name))

\* PresetSelector: the delete button of row i, shown for no built-in name.
ClickDelete(i) ==
    /\ presets[i].name \notin BuiltInNames
    /\ Commit("clickDelete", <<presets[i].name>>,
              deletePreset(Store, presets[i].name))

----------------------------------------------------------------------------
(* Spec: editing.  Sliders, grayscale, split view, reset and undo, with    *)
(* values in and out of the slider range.                                  *)

\* The sliders moved: every knob, with values in and out of [-100, 100].
EditInputs ==
    { <<"brightness", 150>>, <<"contrast", -300>>, <<"saturation", 10>>,
      <<"sharpness", 20>>, <<"noise", -100>> }

EditUpdate ==
    \E in \in EditInputs :
        /\ used.edits < MaxEdits
        /\ UpdateAdjustment(in[1], in[2])
        /\ Count("edits")
        /\ UNCHANGED calls

EditUndo ==
    /\ used.edits < MaxEdits
    /\ Undo
    /\ Count("edits")
    /\ UNCHANGED calls

EditReset ==
    /\ ResetAdjustments
    /\ UNCHANGED <<used, calls>>

\* The session's image file is dropped.
EditLoad == LoadImage(Files[1])

Next ==
    \/ SetCanvas
    \/ EditLoad
    \/ ToggleGrayscale
    \/ ToggleSplitView
    \/ EditUpdate
    \/ EditUndo
    \/ EditReset

Spec == Init /\ [][Next]_vars

----------------------------------------------------------------------------
(* SpecLedger: a long session on one slider.  The contrast slider is       *)
(* dragged step by step, each step one updateAdjustment call, with a       *)
(* bounded number of undo, resetAdjustments and applyPreset calls in       *)
(* between, until the clock reaches MaxCalls: the ledger fills and evicts. *)

DragKey == "contrast"

\* The snapshot an updateAdjustment call leaves: the adjustments after it.
Snapshot == [adjustments |-> adjustments', timestamp |-> clock']

LedgerDrag ==
    /\ clock < MaxCalls
    /\ UpdateAdjustment(DragKey, adjustments[DragKey] + 1)
    /\ calls' = IF Ready(Store) THEN Append(calls, Snapshot) ELSE calls
    /\ UNCHANGED used

\* The undo, resetAdjustments and applyPreset calls made so far.
Detours == used.undos + used.resets + used.applies

\* The adjustments after the first i knobs of adj are set to those of to.
AfterKnobs(adj, to, i) ==
    [k \in KeySet |->
        IF \E j \in 1..i : Keys[j] = k THEN to[k] ELSE adj[k]]

\* The snapshots the updateAdjustment calls of an applyPreset leave, one
\* per knob.
Snapshots(adj, to, now) ==
    [i \in 1..Len(Keys) |->
        [adjustments |-> AfterKnobs(adj, to, i), timestamp |-> now + i]]

\* The first preset of the registry is clicked.
LedgerApply ==
    /\ clock + Len(Keys) <= MaxCalls
    /\ Detours < MaxDetours
    /\ ApplyPreset(presets[1])
    /\ Count("applies")
    /\ calls' = IF Ready(Store)
                THEN calls \o Snapshots(adjustments,
                                        presets[1].adjustments, clock)
                ELSE calls

LedgerUndo ==
    /\ clock < MaxCalls
    /\ Detours < MaxDetours
    /\ Undo
    /\ Count("undos")
    /\ UNCHANGED calls

LedgerReset ==
    /\ Detours < MaxDetours
    /\ ResetAdjustments
    /\ Count("resets")
    /\ UNCHANGED calls

\* The session's one image is loaded.
LedgerLoad ==
    /\ activeImage = NoImage
    /\ LoadImage(Files[1])

NextLedger ==
    \/ SetCanvas
    \/ LedgerLoad
    \/ LedgerDrag
    \/ LedgerUndo
    \/ LedgerReset
    \/ LedgerApply

SpecLedger == Init /\ [][NextLedger]_vars

----------------------------------------------------------------------------
(* SpecPresets: the preset registry.  Presets are added through the store  *)
(* and through the save button, deleted through the store and through the  *)
(* delete button, and applied, with and without an image loaded.           *)

\* Names typed into the save box: empty, blank, padded, a built-in name.
NameInputs == { <<>>, <<Space>>, <<Space, "X">>, <<"Vintage">> }

\* The adjustments of a preset passed to the store from outside the UI.
CustomAdjustments == Adjustment(10, -20, 30, 150, -5)

\* Presets passed to the store from outside the UI.
PresetInputs ==
    { [name |-> n, adjustments |-> CustomAdjustments] :
        n \in { <<>>, <<"X">>, <<"Vintage">> } }

Registry == {presets[i] : i \in 1..Len(presets)}

\* The session's one image is loaded.
PresetLoad ==
    /\ activeImage = NoImage
    /\ LoadImage(Files[1])

PresetAdd ==
    \E preset \in PresetInputs :
        /\ used.adds < MaxAdds
        /\ AddPreset(preset)
        /\ Count("adds")
        /\ UNCHANGED calls

PresetSave ==
    \E name \in NameInputs :
        /\ used.adds < MaxAdds
        /\ HandleSavePreset(name)
        /\ Count("adds")
        /\ UNCHANGED calls

PresetDelete ==
    \E preset \in Registry :
        /\ DeletePreset(preset.name)
        /\ UNCHANGED <<used, calls>>

PresetClickDelete ==
    \E i \in 1..Len(presets) :
        /\ ClickDelete(i)
        /\ UNCHANGED <<used, calls>>

PresetApply ==
    \E preset \in PresetInputs \cup Registry :
        /\ clock + Len(Keys) <= MaxPresetCalls
        /\ ApplyPreset(preset)
        /\ UNCHANGED <<used, calls>>

NextPresets ==
    \/ SetCanvas
    \/ PresetLoad
    \/ PresetAdd
    \/ PresetSave
    \/ PresetDelete
    \/ PresetClickDelete
    \/ PresetApply

SpecPresets == Init /\ [][NextPresets]_vars

----------------------------------------------------------------------------
(* SpecSharpness: the Sharpness filter applied to image data.  The image   *)
(* data and the filter's sharpness are drawn when the run starts; the one  *)
(* step is applyTo2d.                                                      *)

\* The pixels the image data is made of: red, green, blue, alpha.
PixelInputs == { <<0, 255, 40, 255>>, <<200, 10, 40, 128>> }

\* The filter's sharpness: the slider's middle and ends, and a value that
\* leaves fractions.
SharpnessInputs == { 50, -100, 20 }

\* The sizes of the image data, width by height: the smallest with an
\* interior pixel, and up to MaxPixels pixels.
SizeInputs ==
    { wh \in (3..MaxPixels) \X (3..MaxPixels) : wh[1] * wh[2] <= MaxPixels }

\* ImageData.data of an image of the given pixels.
Flat(image, n) ==
    [i \in 1..(4 * n) |-> image[1 + ((i - 1) \div 4)][1 + ((i - 1) % 4)]]

InitSharpness ==
    /\ InitEditor
    /\ \E wh \in SizeInputs, sharpness \in SharpnessInputs :
           \E image \in [1..(wh[1] * wh[2]) -> PixelInputs] :
               pixels = [data |-> Flat(image, wh[1] * wh[2]),
                         input |-> Flat(image, wh[1] * wh[2]),
                         width |-> wh[1], height |-> wh[2],
                         sharpness |-> sharpness, applied |-> FALSE]

ApplyTo2d ==
    /\ ~pixels.applied
    /\ pixels' = [pixels EXCEPT
                     !.data = applyTo2d(pixels.data, pixels.width,
                                        pixels.height, pixels.sharpness),
                     !.applied = TRUE]
    /\ UNCHANGED <<canvas, activeImage, isGrayscale, isSplitView,
                   adjustments, history, presets, filters, clock, op, pre,
                   prior, used, calls, surface, pending, ui, was>>

NextSharpness == ApplyTo2d

SpecSharpness == InitSharpness /\ [][NextSharpness]_vars

----------------------------------------------------------------------------
(* SpecSurface: loading and cropping.  Files are dropped while earlier     *)
(* loads are pending, the crop button is clicked, the crop rect is dragged *)
(* and resized, grayscale is toggled, and the pending reads, decodes and   *)
(* image constructions complete in any order.                              *)

\* The gestures on the crop rect: dragged by (100, 50) and resized to
\* half its width.
RectGestures == { [dx |-> 100, dy |-> 50, sx |-> Q(1, 2), sy |-> QInt(1)] }

\* handleDrop, handleFileSelect: loadImage(file).
SurfaceDrop ==
    \E i \in 1..Len(Files) :
        /\ canvas
        /\ used.loads + used.crops < MaxTasks
        /\ CommitWorld("readAsDataURL", <<used.loads + 1, Files[i]>>,
               readAsDataURL(World, used.loads + 1, Files[i]))
        /\ Count("loads")
        /\ UNCHANGED calls

\* The read of a dropped file completes.
SurfaceRead ==
    \E task \in pending.loads :
        /\ task.stage = "read"
        /\ CommitWorld("onload", <<task>>, onload(World, task))
        /\ UNCHANGED <<used, calls>>

\* The decode of a dropped file completes.
SurfaceDecode ==
    \E task \in pending.loads :
        /\ task.stage = "decode"
        /\ CommitWorld("fromURL", <<task>>, fromURL(World, task))
        /\ UNCHANGED <<used, calls>>

\* The crop button is clicked; in commit mode getContext('2d') gives a
\* context or null.
SurfaceCropClick ==
    \E context \in IF ui.isCropping THEN BOOLEAN ELSE {TRUE} :
        LET w == handleCropClick(World, context)
            starts == w.pending.crops # pending.crops
        IN /\ starts => used.loads + used.crops < MaxTasks
           /\ CommitWorld(IF ui.isCropping THEN "applyCrop"
                          ELSE "cropImage", <<context>>, w)
           /\ used' = [used EXCEPT !.crops = IF starts THEN @ + 1 ELSE @]
           /\ UNCHANGED calls

\* The construction of a cropped image completes.
SurfaceCropped ==
    \E task \in pending.crops :
        /\ CommitWorld("croppedImg", <<task>>, croppedImg(World, task))
        /\ UNCHANGED <<used, calls>>

\* The crop rect, as cropImage made it, is dragged and resized.
SurfaceGesture ==
    \E g \in RectGestures :
        /\ FindRect(surface) # NoImage
        /\ surface.shapes[FindRect(surface)].scaleX = QInt(1)
        /\ surface.shapes[FindRect(surface)].scaleY = QInt(1)
        /\ CommitWorld("transformRect", <<g>>, transformRect(World, g))
        /\ UNCHANGED <<used, calls>>

NextSurface ==
    \/ SetCanvas
    \/ SurfaceDrop
    \/ SurfaceRead
    \/ SurfaceDecode
    \/ SurfaceCropClick
    \/ SurfaceCropped
    \/ SurfaceGesture

SpecSurface == Init /\ [][NextSurface]_vars

----------------------------------------------------------------------------
(* SpecSplit: cropping with grayscale and split view.  Files are dropped   *)
(* and decoded, the crop button is clicked and the pending constructions   *)
(* complete, and the grayscale and split-view buttons are clicked, in any  *)
(* order.                                                                  *)

\* A file is dropped and its read and decode complete.
SplitLoad == \E i \in 1..Len(Files) : LoadImage(Files[i])

\* The crop button is clicked.
SplitCropClick ==
    /\ SurfaceCropClick
    /\ pending'.crops # pending.crops => used.crops < MaxCommits

NextSplit ==
    \/ SetCanvas
    \/ SplitLoad
    \/ SplitCropClick
    \/ SurfaceCropped
    \/ ToggleGrayscale
    \/ ToggleSplitView

SpecSplit == Init /\ [][NextSplit]_vars

----------------------------------------------------------------------------
(* Claims.                                                                 *)

Default(adj) == \A k \in KeySet : adj[k] = 0

\* The adjustments the ledger's latest entry records, the defaults if none.
Latest(ledger) ==
    IF ledger = <<>> THEN DEFAULT_ADJUSTMENTS
    ELSE ledger[Len(ledger)].adjustments

\* C1: every knob holds a value in [-100, 100] in every reachable state:
\* updateAdjustment clamps the value it stores.
C1_KnobsInRange ==
    \A k \in KeySet : adjustments[k] \in -100..100

\* C2: the ledger holds at most 20 entries, in the order they were
\* appended (timestamps increase); after n sequential updateAdjustment
\* calls it is the snapshots of the min(n, 20) most recent calls, oldest to
\* newest.
C2_LedgerBounded ==
    /\ Len(history) <= 20
    /\ \A i \in 1..(Len(history) - 1) :
           history[i].timestamp < history[i + 1].timestamp
    /\ used.undos = 0 =>
           history = IF Len(calls) <= 20 THEN calls
                     ELSE SubSeq(calls, Len(calls) - 19, Len(calls))

\* 25 sequential updateAdjustment calls were made: the ledger holds the
\* snapshots of calls 6 to 25.
C2_Witness ==
    /\ used.undos = 0
    /\ used.resets = 0
    /\ Len(calls) = 25
    /\ Len(history) = 20
    /\ history[1].timestamp = 6
    /\ history[20].timestamp = 25

\* C3: undo() on a ledger [A, B, C] sets the adjustments to B's and leaves
\* the ledger [A, B].
C3_UndoPops ==
    (op.name = "undo" /\ Ready(pre) /\ Len(pre.history) = 3) =>
        /\ adjustments = pre.history[2].adjustments
        /\ history = SubSeq(pre.history, 1, 2)

\* The call before the last was an updateAdjustment on a loaded image and
\* the last an undo.
UndoAfterUpdate ==
    /\ op.name = "undo"
    /\ prior # <<>>
    /\ prior[1].op.name = "updateAdjustment"
    /\ Ready(pre)

\* C4 as claimed: undo() at once after an updateAdjustment restores the
\* adjustments that updateAdjustment was called on, whatever came before.
C4_UndoRestoresPreMutation ==
    UndoAfterUpdate => adjustments = prior[1].adjustments

\* The adjustments before the updateAdjustment were those of the entry
\* that was then the ledger's latest: the one before the entry the
\* updateAdjustment appended.
SyncedBeforeUpdate ==
    prior[1].adjustments = Latest(SliceButLast(pre.history))

\* C4 as amended: undo() at once after an updateAdjustment restores the
\* adjustments that updateAdjustment was called on whenever they were
\* those of the ledger's latest entry (the defaults for an empty ledger);
\* and of all calls on a loaded image only resetAdjustments leaves
\* adjustments that differ from the ledger's latest entry.
C4_UndoRestoresLedger ==
    /\ (UndoAfterUpdate /\ SyncedBeforeUpdate) =>
           adjustments = prior[1].adjustments
    /\ (Ready(pre) /\ pre.adjustments = Latest(pre.history)
          /\ op.name # "resetAdjustments") =>
           adjustments = Latest(history)

\* An undo at once after an updateAdjustment that evicted at the 20-entry
\* bound, a resetAdjustments having come before: the adjustments are back
\* to those the updateAdjustment changed.
C4_Witness ==
    /\ UndoAfterUpdate
    /\ SyncedBeforeUpdate
    /\ Len(pre.history) = 20
    /\ pre.clock > 20
    /\ used.resets > 0
    /\ adjustments # pre.adjustments
    /\ adjustments = prior[1].adjustments

\* C5: undo() on an empty or single-entry ledger leaves all five knobs 0.
C5_UndoShortLedger ==
    (op.name = "undo" /\ Len(pre.history) <= 1) => Default(adjustments)

\* undo() ran on a single-entry ledger whose entry had knobs off 0.
C5_Witness ==
    /\ op.name = "undo"
    /\ Ready(pre)
    /\ Len(pre.history) = 1
    /\ ~Default(pre.adjustments)
    /\ Default(adjustments)

\* C6: resetAdjustments() with an image loaded sets all five knobs to 0,
\* grayscale to false and the filter stack to empty, and leaves the
\* history ledger, the preset registry and the split-view flag unchanged.
C6_ResetFrame ==
    (op.name = "resetAdjustments" /\ Ready(pre)) =>
        /\ Default(adjustments)
        /\ ~isGrayscale
        /\ filters = <<>>
        /\ history = pre.history
        /\ presets = pre.presets
        /\ isSplitView = pre.isSplitView

\* resetAdjustments() ran with knobs off 0, grayscale and split view on, a
\* filter stack and a ledger with entries.
C6_Witness ==
    /\ op.name = "resetAdjustments"
    /\ Ready(pre)
    /\ ~Default(pre.adjustments)
    /\ pre.isGrayscale
    /\ pre.isSplitView
    /\ pre.filters # <<>>
    /\ Len(pre.history) >= 2
    /\ Default(adjustments)

\* C7: on the image first loaded, after any sequence of updateAdjustment,
\* toggleGrayscale, resetAdjustments and undo, whenever grayscale is
\* enabled the Grayscale filter is the first filter of the stack and no
\* other filter precedes it.
C7_GrayscaleFirst ==
    (Ready(Store) /\ used.images = 1 /\ isGrayscale) =>
        /\ filters # <<>>
        /\ filters[1] = Grayscale
        /\ \A i \in 2..Len(filters) : filters[i] # Grayscale

\* The call before the last was addPreset(P), with a non-empty name, and
\* the last applyPreset(P).
ApplyAfterAdd ==
    /\ op.name = "applyPreset"
    /\ prior # <<>>
    /\ prior[1].op.args = op.args
    /\ op.args[1].name # <<>>

\* C8 as claimed: addPreset(P) followed by applyPreset(P) leaves the
\* adjustments equal to P's, from every reachable state.
C8_RoundTrip ==
    ApplyAfterAdd => adjustments = op.args[1].adjustments

\* C8 as amended: addPreset(P) followed by applyPreset(P) leaves the
\* adjustments equal to P's, from every reachable state with an image
\* loaded.
C8_RoundTripLoaded ==
    (ApplyAfterAdd /\ Ready(pre)) => adjustments = op.args[1].adjustments

\* addPreset(P) then applyPreset(P) ran with an image loaded and knobs off
\* 0 and off P's values.
C8_Witness ==
    /\ ApplyAfterAdd
    /\ Ready(pre)
    /\ ~Default(pre.adjustments)
    /\ \A k \in KeySet : pre.adjustments[k] # op.args[1].adjustments[k]
    /\ adjustments = op.args[1].adjustments

\* C9: the registry always holds the three built-in presets, and
\* deletePreset with a built-in name leaves the registry unchanged.
C9_BuiltInsKept ==
    /\ \A i \in 1..Len(DEFAULT_PRESETS) : DEFAULT_PRESETS[i] \in Registry
    /\ (op.name = "deletePreset" /\ op.args[1] \in BuiltInNames) =>
           presets = pre.presets

\* C10: every preset of the registry has a non-empty name, no two presets
\* share a name, and addPreset with a name that is empty after trimming or
\* already in the registry leaves the registry unchanged.
C10_NamesUnique ==
    /\ \A i \in 1..Len(presets) : presets[i].name # <<>>
    /\ \A i, j \in 1..Len(presets) :
           presets[i].name = presets[j].name => i = j
    /\ (op.name = "addPreset"
          /\ \/ Trim(op.args[1].name) = <<>>
             \/ \E p \in {pre.presets[i] : i \in 1..Len(pre.presets)} :
                    p.name = op.args[1].name) =>
           presets = pre.presets

\* C16: at once after every updateAdjustment on a loaded image the filter
\* stack of the active image is the Grayscale filter if grayscale is
\* enabled, then Brightness(brightness/100), Contrast(contrast/100),
\* Saturation(saturation/100), Sharpness(sharpness) and Noise(noise), in
\* that order: a function of the adjustments and the grayscale flag only.
C16_FilterStack ==
    (op.name = "updateAdjustment" /\ Ready(pre)) =>
        filters =
            (IF isGrayscale
             THEN <<[type |-> "Grayscale", num |-> 0, den |-> 1]>>
             ELSE <<>>) \o
            << [type |-> "Brightness", num |-> adjustments.brightness,
                den |-> 100],
               [type |-> "Contrast", num |-> adjustments.contrast,
                den |-> 100],
               [type |-> "Saturation", num |-> adjustments.saturation,
                den |-> 100],
               [type |-> "Sharpness", num |-> adjustments.sharpness,
                den |-> 1],
               [type |-> "Noise", num |-> adjustments.noise, den |-> 1] >>

\* updateAdjustment ran with grayscale enabled on a stack that held the
\* Grayscale filter last, after the five of an earlier call: the stack is
\* rebuilt with Grayscale first and six filters in all.
C16_Witness ==
    /\ op.name = "updateAdjustment"
    /\ Ready(pre)
    /\ isGrayscale
    /\ Len(pre.filters) = 6
    /\ pre.filters[6].type = "Grayscale"
    /\ Len(filters) = 6
    /\ filters[1].type = "Grayscale"
    /\ adjustments # pre.adjustments

\* C20: repeated undo makes progress.  Each undo() on a ledger of two or
\* more entries strictly shortens the ledger, and n consecutive undo()
\* calls on a ledger of n entries end with all five knobs 0 (here n = 2).
C20_UndoProgress ==
    /\ (op.name = "undo" /\ Ready(pre) /\ Len(pre.history) >= 2) =>
           Len(history) < Len(pre.history)
    /\ (op.name = "undo" /\ Ready(pre) /\ prior # <<>>
          /\ prior[1].op.name = "undo" /\ prior[1].ledger = 2) =>
           Default(adjustments)

\* C17: applyPreset(P) with an image loaded appends exactly five entries
\* to the ledger, the oldest entries evicted at the 20-entry bound; the
\* i-th of the five records the adjustments after the first i knobs, in
\* the order brightness, contrast, saturation, sharpness, noise, are set
\* to P's values, and the fifth equals P's adjustments.
C17_ApplyAppendsFive ==
    (op.name = "applyPreset" /\ Ready(pre)) =>
        LET P == op.args[1].adjustments
            n == Len(history)
            kept == IF Len(pre.history) <= 15 THEN pre.history
                    ELSE SubSeq(pre.history, Len(pre.history) - 14,
                                Len(pre.history))
        IN /\ n = Len(kept) + 5
           /\ SubSeq(history, 1, n - 5) = kept
           /\ history[n - 4].adjustments =
                  [pre.adjustments EXCEPT !.brightness = P.brightness]
           /\ history[n - 3].adjustments =
                  [pre.adjustments EXCEPT !.brightness = P.brightness,
                                          !.contrast = P.contrast]
           /\ history[n - 2].adjustments =
                  [pre.adjustments EXCEPT !.brightness = P.brightness,
                                          !.contrast = P.contrast,
                                          !.saturation = P.saturation]
           /\ history[n - 1].adjustments =
                  [pre.adjustments EXCEPT !.brightness = P.brightness,
                                          !.contrast = P.contrast,
                                          !.saturation = P.saturation,
                                          !.sharpness = P.sharpness]
           /\ history[n].adjustments = P

\* applyPreset ran on a ledger of 18 entries or more, with knobs off the
\* preset's: three or more entries were evicted and the five appended
\* differ from one to the next where the preset's knob is not 0.
C17_Witness ==
    /\ op.name = "applyPreset"
    /\ Ready(pre)
    /\ Len(pre.history) >= 18
    /\ Len(history) = 20
    /\ history[15].timestamp = pre.clock
    /\ history[16].adjustments # pre.adjustments
    /\ history[17].adjustments # history[16].adjustments
    /\ history[18].adjustments # history[17].adjustments
    /\ history[20].adjustments # history[19].adjustments
    /\ adjustments = op.args[1].adjustments

\* The bytes of the pixel in column x of row y, both counted from 0.
PixelAt(data, x, y) ==
    [c \in 0..3 |-> data[(y * pixels.width + x) * 4 + c + 1]]

Interior(x, y) ==
    /\ x \in 1..(pixels.width - 2)
    /\ y \in 1..(pixels.height - 2)

\* The unsharp mask of channel c of an interior pixel, from the input
\* image: cur + (cur - average of N, S, E, W) * sharpness / 50, clamped to
\* [0, 255], as the byte nearest to it.
Unsharp(x, y, c) ==
    LET cur == PixelAt(pixels.input, x, y)[c]
        sum == PixelAt(pixels.input, x, y - 1)[c]
               + PixelAt(pixels.input, x, y + 1)[c]
               + PixelAt(pixels.input, x + 1, y)[c]
               + PixelAt(pixels.input, x - 1, y)[c]
        n == 200 * cur + (4 * cur - sum) * pixels.sharpness
        below == n \div 200
    IN IF n <= 0 THEN 0
       ELSE IF n >= 255 * 200 THEN 255
       ELSE IF 2 * (n % 200) < 200 THEN below
       ELSE IF 2 * (n % 200) > 200 THEN below + 1
       ELSE IF below % 2 = 0 THEN below
       ELSE below + 1

\* C19: the result of the Sharpness filter's applyTo2d is the unsharp mask
\* of the input image: every colour channel of every interior pixel is
\* the unsharp mask computed from the unmodified input, and the border
\* pixels and the alpha channel are unchanged.
C19_SharpnessUnsharpMask ==
    pixels.applied =>
        \A x \in 0..(pixels.width - 1), y \in 0..(pixels.height - 1) :
            /\ PixelAt(pixels.data, x, y)[3] = PixelAt(pixels.input, x, y)[3]
            /\ ~Interior(x, y) =>
                   PixelAt(pixels.data, x, y) = PixelAt(pixels.input, x, y)
            /\ Interior(x, y) =>
                   \A c \in 0..2 :
                       PixelAt(pixels.data, x, y)[c] = Unsharp(x, y, c)

\* The images on the surface, by their place in the list of objects.
ImagesOn(surf) ==
    {i \in 1..Len(surf.objects) :
        surf.shapes[surf.objects[i]].kind = "image"}

\* The construction of a cropped image has just completed: the old image,
\* the rect and the new image are where a crop commit leaves them, the new
\* image at scale 1 and at the rect's position.
CropCompleted ==
    LET task == op.args[1]
        onSurface == {surface.objects[i] : i \in 1..Len(surface.objects)}
        rect == was.surface.shapes[task.rect]
        new == surface.shapes[activeImage]
    IN /\ task.image \notin onSurface
       /\ task.rect \notin onSurface
       /\ activeImage \in onSurface
       /\ activeImage \notin DOMAIN was.surface.shapes
       /\ new.kind = "image"
       /\ new.scaleX = QInt(1)
       /\ new.scaleY = QInt(1)
       /\ new.left = rect.left
       /\ new.top = rect.top

\* The surface width and height of the rect a crop was committed on.
CommittedWidth == QMul(op.args[1].rectThen.width, op.args[1].rectThen.scaleX)

CommittedHeight ==
    QMul(op.args[1].rectThen.height, op.args[1].rectThen.scaleY)

\* C11 as claimed: after a crop commit completes, the old active image and
\* the overlay rect are off the surface, the new image is the active
\* image, at scale 1 and at the rect's left and top, and its pixel
\* dimensions equal the rect's surface dimensions, width * scaleX by
\* height * scaleY.
C11_CropReplacesExact ==
    op.name = "croppedImg" =>
        /\ CropCompleted
        /\ surface.shapes[activeImage].width = CommittedWidth
        /\ surface.shapes[activeImage].height = CommittedHeight

\* C11 as amended: after a crop commit completes, the old active image
\* and the overlay rect are off the surface, the new image is the active
\* image, at scale 1 and at the rect's left and top, and its pixel
\* dimensions are the rect's surface dimensions at the commit, each with
\* its fraction of a pixel dropped.
C11_CropReplaces ==
    op.name = "croppedImg" =>
        /\ CropCompleted
        /\ surface.shapes[activeImage].width.d = 1
        /\ surface.shapes[activeImage].height.d = 1
        /\ surface.shapes[activeImage].width.n * CommittedWidth.d
               <= CommittedWidth.n
        /\ CommittedWidth.n
               < (surface.shapes[activeImage].width.n + 1) * CommittedWidth.d
        /\ surface.shapes[activeImage].height.n * CommittedHeight.d
               <= CommittedHeight.n
        /\ CommittedHeight.n
               < (surface.shapes[activeImage].height.n + 1)
                     * CommittedHeight.d

\* A crop commit completed on a rect that was dragged and resized to a
\* surface width that is no whole number of pixels; the old image and the
\* rect were on the surface until then.
C11_Witness ==
    /\ op.name = "croppedImg"
    /\ CropCompleted
    /\ op.args[1].rectThen.scaleX # QInt(1)
    /\ op.args[1].rectThen.left # was.surface.shapes[op.args[1].image].left
    /\ CommittedWidth.d # 1
    /\ \E i, j \in 1..Len(was.surface.objects) :
           /\ was.surface.objects[i] = op.args[1].image
           /\ was.surface.objects[j] = op.args[1].rect

\* C12: on crop commit the source pixels drawn into the new image are the
\* inverse image of the rect's surface rectangle under the active image's
\* position and scale: left = (rectLeft - imageLeft) / imageScaleX, top
\* likewise, width = rect.width * rect.scaleX / imageScaleX and height =
\* rect.height * rect.scaleY / imageScaleY.
C12_SourceRegion ==
    op.name = "applyCrop" =>
        \A task \in pending.crops \ was.pending.crops :
            LET img == surface.shapes[task.image]
                rect == surface.shapes[task.rect]
            IN /\ task.region.left =
                      QDiv(QSub(rect.left, img.left), img.scaleX)
               /\ task.region.top =
                      QDiv(QSub(rect.top, img.top), img.scaleY)
               /\ task.region.width =
                      QDiv(QMul(rect.width, rect.scaleX), img.scaleX)
               /\ task.region.height =
                      QDiv(QMul(rect.height, rect.scaleY), img.scaleY)

\* C13: applyCrop with no overlay rect on the surface is a no-op: the
\* store (active image, adjustments, history, presets and the rest) and
\* the surface's objects are unchanged and no construction of an image is
\* started.
C13_NoRectNoOp ==
    (op.name = "applyCrop" /\ FindRect(was.surface) = NoImage) =>
        /\ Store = pre
        /\ surface = was.surface
        /\ pending = was.pending

\* applyCrop ran with an image loaded, a 2D context at hand and no rect on
\* the surface.
C13_Witness ==
    /\ op.name = "applyCrop"
    /\ op.args = <<TRUE>>
    /\ Ready(pre)
    /\ FindRect(was.surface) = NoImage
    /\ Len(surface.objects) = 1
    /\ pending.crops = {}

\* C14: if at crop commit the 2D context of the temporary canvas is
\* unavailable, the active image and the overlay rect are unchanged,
\* nothing is started and the crop control stays in commit mode.
C14_AbortStaysCropping ==
    (op.name = "applyCrop" /\ op.args = <<FALSE>> /\ Ready(pre)
       /\ FindRect(was.surface) # NoImage) =>
        /\ activeImage = pre.activeImage
        /\ surface = was.surface
        /\ pending = was.pending
        /\ ui.isCropping

\* C15: when the decode of a load completes, whatever loads were started
\* and completed before it and in whatever order, the surface holds
\* exactly one object, an image; it is the active image and it is the
\* image of the file whose decode has just completed.
C15_LastDecodeWins ==
    op.name = "fromURL" =>
        /\ Len(surface.objects) = 1
        /\ surface.objects[1] = activeImage
        /\ surface.shapes[activeImage].kind = "image"
        /\ surface.shapes[activeImage].file = op.args[1].file.name

\* Two loads were started, of two files; the second completed first and
\* placed its image, then the decode of the first completed: both have
\* completed and the one image is of the first file.
C15_Witness ==
    /\ op.name = "fromURL"
    /\ used.loads = 2
    /\ used.crops = 0
    /\ pending.loads = {}
    /\ op.args[1].id = 1
    /\ Len(was.surface.objects) = 1
    /\ was.surface.shapes[was.surface.objects[1]].file # op.args[1].file.name
    /\ [id |-> 1, file |-> op.args[1].file, stage |-> "decode"]
           \in was.pending.loads
    /\ surface.objects = <<activeImage>>
    /\ surface.shapes[activeImage].file = op.args[1].file.name

\* C18: with split view off the surface holds at most one image, and it
\* is the store's active image, in every reachable state.
C18_OneImage ==
    ~isSplitView =>
        /\ Cardinality(ImagesOn(surface)) <= 1
        /\ \A i \in ImagesOn(surface) : surface.objects[i] = activeImage

\* C21: in every reachable state with an active image, isGrayscale is
\* true if and only if the filter stack of the active image holds exactly
\* one Grayscale filter.
C21_GrayscaleAgrees ==
    activeImage # NoImage =>
        (isGrayscale <=>
            Cardinality({i \in 1..Len(filters) :
                            filters[i].type = "Grayscale"}) = 1)

\* The crop rects on the surface, by their place in the list of objects.
RectsOn(surf) ==
    {i \in 1..Len(surf.objects) :
        surf.shapes[surf.objects[i]].kind = "rect"}

\* C22: in every reachable state with no crop commit pending, the crop
\* control is in Cropping mode (isCropping) if and only if exactly one
\* crop rect is on the surface.
C22_CropModeAgrees ==
    pending.crops = {} =>
        (ui.isCropping <=> Cardinality(RectsOn(surface)) = 1)

\* The objects on a surface.
ObjectsOn(surf) == {surf.objects[i] : i \in 1..Len(surf.objects)}

\* Object o of surface s is a copy of object p of surface t: the same
\* fields, the clip path aside.
CopyOf(s, o, t, p) ==
    [s.shapes[o] EXCEPT !.clipPath = FALSE] =
        [t.shapes[p] EXCEPT !.clipPath = FALSE]

\* The copies of the active image that were on the surface before the
\* last step.
CopiesBefore ==
    {o \in ObjectsOn(was.surface) \ {pre.activeImage} :
        CopyOf(was.surface, o, was.surface, pre.activeImage)}

\* C23: a discarded image never returns.  The object a split-view
\* toggle-on places on the surface is a copy of the current active image,
\* after a crop commit the cropped one and not the pre-crop image; a
\* toggle-off removes exactly that copy and no other object.
C23_DiscardedNeverReturns ==
    /\ (op.name = "toggleSplitView" /\ isSplitView
          /\ activeImage # NoImage) =>
           \A o \in ObjectsOn(surface) \ ObjectsOn(was.surface) :
               CopyOf(surface, o, surface, activeImage)
    /\ (op.name = "toggleSplitView" /\ ~isSplitView
          /\ activeImage # NoImage) =>
           ObjectsOn(was.surface) \ ObjectsOn(surface) = CopiesBefore

====
